---- MODULE Spec2Model ----
(***************************************************************************)
(* Verification model of aws-cost-analyzer: the RDS discovery pipeline of  *)
(* the layered code (src/src/infrastructure/aws/aws_cost_repository.py,    *)
(* src/src/application/cost_analyzer.py, src/src/domain/...) and of the    *)
(* legacy code (src/src/repository.py).                                    *)
(*                                                                         *)
(* Numbers are fixed point:                                                *)
(*   percentages (CPU)       hundredths of a percent                       *)
(*   sizes in GB / GiB       hundredths of a GiB                           *)
(*   CloudWatch byte samples MiB (2^20 bytes), so that GiB-sized values    *)
(*                           stay inside TLC's 32-bit integers             *)
(*   money                   1e-5 USD (billing amounts: hundredths of USD) *)
(* A Python value is a record [t |-> type tag, v |-> integer]; the string  *)
(* 'N/A' has the tag "na".                                                 *)
(***************************************************************************)
EXTENDS Integers, Sequences, FiniteSets, TLC

VARIABLES
    impl,       \* "layered" or "legacy": which implementation runs
    days,       \* the window in days (days / total_days)
    pc,         \* get_database_instances: "idle", "start", "loop", "region", "returned", "raised"
    regions,    \* the region list describe_regions returned
    ridx,       \* index of the region being processed (for idx, region in enumerate(regions))
    dbs,        \* response['DBInstances'] of the current region
    dbidx,      \* index of the instance being processed (for db in response['DBInstances'])
    instances,  \* the result list `instances`
    clients,    \* the client cache _clients: the <<service, region>> keys held (SpecClients: key -> handle)
    hist,       \* history of the run: what each external call did (SpecClients: the log of get calls)
    api,        \* one instance's enrichment: the answers of the external APIs
    db,         \* one instance's enrichment: the describe_db_instances entry
    rec,        \* one instance's enrichment: the record the repository built
    row,        \* one instance's enrichment: the report row of that record
    epc,        \* one instance's enrichment: "idle", "input", "enriched", "skipped", "analyzed"
    fn,         \* the pure function applied: "idle", "cpu", "memory", "storage", "analyze_costs", ...
    arg,        \* the function applied: its arguments
    ret         \* the function applied: what it returned, once applied

vars == <<impl, days, pc, regions, ridx, dbs, dbidx, instances, clients, hist,
          api, db, rec, row, epc, fn, arg, ret>>

runVars    == <<pc, regions, ridx, dbs, dbidx, instances, clients, hist>>
enrichVars == <<api, db, rec, row, epc>>
sizingVars == <<fn, arg, ret>>

Impls == {"layered", "legacy"}

----------------------------------------------------------------------------
(* Python values *)

PyFloat(x)   == [t |-> "float", v |-> x]
PyInt(x)     == [t |-> "int", v |-> x]
PyDecimal(x) == [t |-> "decimal", v |-> x]
PyStr(x)     == [t |-> "str", v |-> x]
NA         == [t |-> "na", v |-> 0]

\* isinstance(x, (int, float))
IsNumber(x) == x.t \in {"int", "float"}

\* bool(x) of a number
Truthy(x) == x.t \in {"int", "float", "decimal"} /\ x.v # 0

----------------------------------------------------------------------------
(* Arithmetic *)

\* n / d rounded to the nearest integer, ties to even (Python's round() and
\* the 'f' format both round the decimal value half to even), n >= 0, d > 0
RoundHalfEven(n, d) ==
    LET q == n \div d
        r == n % d
    IN  IF 2 * r < d THEN q
        ELSE IF 2 * r > d THEN q + 1
        ELSE IF q % 2 = 0 THEN q ELSE q + 1

\* x rounded to a multiple of step: round(x, k) and f"{x:.kf}" on a value
\* held at a finer resolution
RoundTo(x, step) == RoundHalfEven(x, step) * step

----------------------------------------------------------------------------
(* Sizing evaluation.  A classification text such as                       *)
(* "Memory: Low (10.0% free)" is the record                                *)
(* [dim |-> "Memory", status |-> "Low", pct |-> <<100>>], the percentage   *)
(* in tenths as the .1f format prints it; pct is <<>> for a text without   *)
(* a percentage.                                                           *)

Text(dim, status) == [dim |-> dim, status |-> status, pct |-> << >>]
TextPct(dim, status, pct10) == [dim |-> dim, status |-> status, pct |-> <<pct10>>]

\* f"{(free / total) * 100:.1f}", total > 0
PercentFree(free, total) == RoundHalfEven(free * 1000, total)

\* evaluate_cpu with 80 itself counted as high
evaluate_cpu_ge(cpu_utilization) ==
    IF cpu_utilization.v >= 80 * 100 THEN Text("CPU", "High Usage")
    ELSE IF cpu_utilization.v < 20 * 100 THEN Text("CPU", "Low Usage")
    ELSE Text("CPU", "Optimal")

\* DatabaseMetrics.evaluate_cpu (layered)
evaluate_cpu(cpu_utilization) ==
    IF cpu_utilization.v > 80 * 100 THEN Text("CPU", "High Usage")
    ELSE IF cpu_utilization.v < 20 * 100 THEN Text("CPU", "Low Usage")
    ELSE Text("CPU", "Optimal")

\* evaluate_memory with 5% itself counted as critically low
evaluate_memory_le(free_memory_gb, total_memory_gb) ==
    IF ~Truthy(total_memory_gb) THEN Text("Memory", "Insufficient Data")
    ELSE LET free == free_memory_gb.v
             total == total_memory_gb.v
             memory_percent_free == PercentFree(free, total)
         IN  IF free * 100 <= 5 * total
                 THEN TextPct("Memory", "Critically Low", memory_percent_free)
             ELSE IF free * 100 < 15 * total
                 THEN TextPct("Memory", "Low", memory_percent_free)
             ELSE TextPct("Memory", "Optimal", memory_percent_free)

\* DatabaseMetrics.evaluate_memory (layered)
evaluate_memory(free_memory_gb, total_memory_gb) ==
    IF ~Truthy(total_memory_gb) THEN Text("Memory", "Insufficient Data")
    ELSE LET free == free_memory_gb.v
             total == total_memory_gb.v
             memory_percent_free == PercentFree(free, total)
         IN  IF free * 100 < 5 * total
                 THEN TextPct("Memory", "Critically Low", memory_percent_free)
             ELSE IF free * 100 < 15 * total
                 THEN TextPct("Memory", "Low", memory_percent_free)
             ELSE TextPct("Memory", "Optimal", memory_percent_free)

\* _evaluate_storage with 10% itself counted as critically low
_evaluate_storage_le(free_storage_gb, total_storage_gb) ==
    IF ~(IsNumber(free_storage_gb) /\ IsNumber(total_storage_gb))
        THEN Text("Storage", "Insufficient Data")
    ELSE IF total_storage_gb.v = 0
        THEN Text("Storage", "Calculation Error")
    ELSE LET free == free_storage_gb.v
             total == total_storage_gb.v
             storage_percent_free == PercentFree(free, total)
         IN  IF free * 100 <= 10 * total
                 THEN TextPct("Storage", "Critically Low", storage_percent_free)
             ELSE IF free * 100 < 25 * total
                 THEN TextPct("Storage", "Low", storage_percent_free)
             ELSE TextPct("Storage", "Optimal", storage_percent_free)

\* CostAnalyzer._evaluate_storage (layered)
_evaluate_storage(free_storage_gb, total_storage_gb) ==
    IF ~(IsNumber(free_storage_gb) /\ IsNumber(total_storage_gb))
        THEN Text("Storage", "Insufficient Data")
    ELSE IF total_storage_gb.v = 0          \* ZeroDivisionError, caught
        THEN Text("Storage", "Calculation Error")
    ELSE LET free == free_storage_gb.v
             total == total_storage_gb.v
             storage_percent_free == PercentFree(free, total)
         IN  IF free * 100 < 10 * total
                 THEN TextPct("Storage", "Critically Low", storage_percent_free)
             ELSE IF free * 100 < 25 * total
                 THEN TextPct("Storage", "Low", storage_percent_free)
             ELSE TextPct("Storage", "Optimal", storage_percent_free)

\* AWSCostRepository.evaluate_instance_sizing (legacy); " | ".join(evaluations)
\* is the sequence of the three texts
evaluate_instance_sizing(cpu_avg, memory_avg_gb, total_memory_gb, storage_avg_gb, total_storage_gb) ==
    LET cpu_eval ==
            IF ~IsNumber(cpu_avg) THEN Text("CPU", "Insufficient Data")
            ELSE IF cpu_avg.v > 80 * 100 THEN Text("CPU", "High Usage")
            ELSE IF cpu_avg.v < 20 * 100 THEN Text("CPU", "Low Usage")
            ELSE Text("CPU", "Optimal")
        mem_eval ==
            IF ~(IsNumber(memory_avg_gb) /\ IsNumber(total_memory_gb))
                THEN Text("Memory", "Insufficient Data")
            ELSE IF total_memory_gb.v = 0   \* ZeroDivisionError, caught
                THEN Text("Memory", "Calculation Error")
            ELSE LET memory_percent_free ==
                         PercentFree(memory_avg_gb.v, total_memory_gb.v)
                 IN  IF memory_avg_gb.v * 100 < 5 * total_memory_gb.v
                         THEN TextPct("Memory", "Critically Low", memory_percent_free)
                     ELSE IF memory_avg_gb.v * 100 < 15 * total_memory_gb.v
                         THEN TextPct("Memory", "Low", memory_percent_free)
                     ELSE TextPct("Memory", "Optimal", memory_percent_free)
        storage_eval ==
            IF ~(IsNumber(storage_avg_gb) /\ IsNumber(total_storage_gb))
                THEN Text("Storage", "Insufficient Data")
            ELSE IF total_storage_gb.v = 0  \* ZeroDivisionError, caught
                THEN Text("Storage", "Calculation Error")
            ELSE LET storage_percent_free ==
                         PercentFree(storage_avg_gb.v, total_storage_gb.v)
                 IN  IF storage_avg_gb.v * 100 < 10 * total_storage_gb.v
                         THEN TextPct("Storage", "Critically Low", storage_percent_free)
                     ELSE IF storage_avg_gb.v * 100 < 25 * total_storage_gb.v
                         THEN TextPct("Storage", "Low", storage_percent_free)
                     ELSE TextPct("Storage", "Optimal", storage_percent_free)
    IN  <<cpu_eval, mem_eval, storage_eval>>

----------------------------------------------------------------------------
(* External API answers.                                                   *)
(*   metric answer    [k |-> "ok" | "error", pts |-> sequence of samples]  *)
(*                    ("error": the query raises; in the legacy batch      *)
(*                    call, the result entry is missing from the response) *)
(*   pricing answer   [k |-> "ok" | "error", PriceList |-> products]       *)
(*   product          [memory, vcpu |-> attribute, prices |-> the USD      *)
(*                    strings of the OnDemand price dimensions in order]   *)
(*   attribute        [tok |-> "num" | "bad" | "absent", n, unit]: a       *)
(*                    numeric token n (hundredths) with a unit, a          *)
(*                    non-numeric string, or a missing key                 *)
(*   price string     [fmt |-> "dot" | "comma" | "bad", n]: n in 1e-5 USD  *)
(*                    written with a decimal point or a decimal comma, or  *)
(*                    a string that is no number                           *)
(*   EC2 answer       [k |-> "ok" | "error", InstanceTypes |-> sequence of *)
(*                    [vcpus, mib]]                                        *)

Has(d, key) == key \in d.keys

RECURSIVE Sum(_)
Sum(s) == IF s = << >> THEN 0 ELSE Head(s) + Sum(Tail(s))

RECURSIVE Positive(_)
\* [v for v in s if v > 0]
Positive(s) ==
    IF s = << >> THEN << >>
    ELSE IF Head(s) > 0 THEN <<Head(s)>> \o Positive(Tail(s))
    ELSE Positive(Tail(s))

MetricNames == <<"CPUUtilization", "DatabaseConnections", "FreeableMemory", "FreeStorageSpace">>

ByteMetrics == {"FreeStorageSpace", "FreeableMemory"}

\* AWSCostRepository._get_instance_metrics (layered): one query per metric,
\* the mean of the samples > 0, the default 0 otherwise
layered_metric(answer) ==
    IF answer.k = "error" THEN PyInt(0)
    ELSE IF answer.pts # << >>
        THEN LET valid_points == Positive(answer.pts)
             IN  IF valid_points # << >>
                     THEN PyFloat(RoundHalfEven(Sum(valid_points), Len(valid_points)))
                     ELSE PyInt(0)
    ELSE PyInt(0)

_get_instance_metrics(cw) == [m \in DOMAIN cw |-> layered_metric(cw[m])]

\* response['MetricDataResults'] of the batch query: the results of the
\* metrics whose result is in the response (answer.k = "ok"), in the order
\* of the queries
RECURSIVE MetricDataResults(_, _)
MetricDataResults(cw, i) ==
    IF i > Len(MetricNames) THEN << >>
    ELSE (IF cw[MetricNames[i]].k = "error" THEN << >> ELSE <<cw[MetricNames[i]]>>)
             \o MetricDataResults(cw, i + 1)

\* AWSCostRepository.get_rds_utilization (legacy), after the CloudWatch
\* client was obtained: one batch query; the results are read by position,
\* in the order of MetricNames, and the first exception (IndexError past the
\* end of the results) leaves the rest 'N/A'
RECURSIVE ProcessResults(_, _, _)
ProcessResults(results, i, metrics) ==
    IF i > Len(MetricNames) THEN metrics
    ELSE IF i > Len(results) THEN metrics            \* IndexError: except: pass
    ELSE LET metric_name == MetricNames[i]
             values == results[i].pts
         IN  IF values = << >>
                 THEN ProcessResults(results, i + 1, metrics)
             ELSE LET total == Sum(values)
                      n == Len(values)
                      value == IF metric_name \in ByteMetrics
                                   THEN PyFloat(RoundHalfEven(total * 100, n * 1024))
                                   ELSE PyFloat(RoundHalfEven(total, n))
                  IN  ProcessResults(results, i + 1, [metrics EXCEPT ![metric_name] = value])

get_rds_utilization(cw, batch) ==
    LET metrics == [m \in DOMAIN cw |-> NA]
    IN  IF batch = "error" THEN metrics
        ELSE ProcessResults(MetricDataResults(cw, 1), 1, metrics)

----------------------------------------------------------------------------
(* Price resolution *)

\* float(price_str.replace(',', '.')) succeeds
ParsesAsFloat(price_str) == price_str.fmt \in {"dot", "comma"}

RECURSIVE FirstPositivePrice(_)
\* the loops over ondemand / priceDimensions of get_rds_price
FirstPositivePrice(prices) ==
    IF prices = << >> THEN NA
    ELSE IF ParsesAsFloat(Head(prices)) /\ Head(prices).n > 0
        THEN PyStr(RoundTo(Head(prices).n, 10))        \* f"{price:.4f}"
    ELSE FirstPositivePrice(Tail(prices))

\* AWSCostRepository.get_rds_price (legacy)
get_rds_price(strict) ==
    IF strict.k = "error" THEN NA
    ELSE IF strict.PriceList # << >>
        THEN FirstPositivePrice(strict.PriceList[1].prices)
    ELSE NA

\* AWSCostRepository._get_instance_price (layered)
_get_instance_price(strict, broad) ==
    IF strict.k = "error" THEN PyDecimal(0)
    ELSE LET retry == strict.PriceList = << >>
             response == IF retry THEN broad ELSE strict
         IN  IF retry /\ broad.k = "error" THEN PyDecimal(0)
             ELSE IF response.PriceList # << >>
                 THEN LET prices == response.PriceList[1].prices
                      IN  IF prices = << >> THEN PyDecimal(0)   \* StopIteration
                          ELSE IF Head(prices).fmt = "dot"
                              THEN PyDecimal(Head(prices).n)
                          ELSE PyDecimal(0)          \* Decimal(price) raises
             ELSE PyDecimal(0)

----------------------------------------------------------------------------
(* Specification (vCPU, memory) resolution *)

\* AWSCostRepository._convert_to_gb (legacy): the float in hundredths of a
\* GiB, or the int 0 of the except branch
_convert_to_gb(value) ==
    IF value.tok # "num" THEN PyInt(0)
    ELSE IF value.unit = "tib" THEN PyFloat(value.n * 1024)
    ELSE IF value.unit = "mib" THEN PyFloat(RoundHalfEven(value.n, 1024))
    ELSE PyFloat(value.n)

\* attributes.get('memory', '0 GiB') / attributes.get('vcpu', '0')
AttrOr(attr, default) == IF attr.tok = "absent" THEN default ELSE attr

ZeroGiB   == [tok |-> "num", n |-> 0, unit |-> "gib"]
ZeroPlain == [tok |-> "num", n |-> 0, unit |-> ""]

\* AWSCostRepository.get_instance_specs (legacy)
get_instance_specs(spx) ==
    IF spx.k = "error" THEN [memory_gb |-> NA, vcpus |-> NA]
    ELSE IF spx.PriceList # << >>
        THEN LET attributes == spx.PriceList[1]
                 memory_str == AttrOr(attributes.memory, ZeroGiB)
                 memory_gb == _convert_to_gb(memory_str)
                 vcpu_str == AttrOr(attributes.vcpu, ZeroPlain)
                 \* isdigit(): a whole number without sign, point or unit
                 vcpus == IF vcpu_str.tok = "num" /\ vcpu_str.unit = ""
                              /\ vcpu_str.n % 100 = 0
                              THEN PyInt(vcpu_str.n \div 100) ELSE NA
             IN  [memory_gb |-> IF memory_gb.t = "float" THEN memory_gb ELSE NA,
                  vcpus |-> vcpus]
    ELSE [memory_gb |-> NA, vcpus |-> NA]

\* AWSCostRepository._get_instance_specs (layered): EC2 first, the pricing
\* API only when EC2 raised
_get_instance_specs(ec2, spx) ==
    LET zeros == [vcpus |-> PyInt(0), memory_gb |-> PyInt(0)]
    IN  IF ec2.k = "ok"
            THEN IF ec2.InstanceTypes # << >>
                     THEN LET instance_info == ec2.InstanceTypes[1]
                          IN  [vcpus |-> PyInt(instance_info.vcpus),
                               memory_gb |-> PyFloat(RoundHalfEven(instance_info.mib * 100, 1024))]
                     ELSE zeros
        ELSE IF spx.k = "error" THEN zeros
        ELSE IF spx.PriceList # << >>
            THEN LET attributes == spx.PriceList[1]
                     vcpu == AttrOr(attributes.vcpu, ZeroPlain)
                     memory == AttrOr(attributes.memory, ZeroPlain)
                 IN  \* int(...) / float(....split()[0]) raise ValueError
                     IF vcpu.tok # "num" \/ vcpu.n % 100 # 0 \/ vcpu.unit # ""
                            \/ memory.tok # "num"
                         THEN zeros
                     ELSE [vcpus |-> PyInt(vcpu.n \div 100),
                           memory_gb |-> PyFloat(memory.n)]
        ELSE zeros

----------------------------------------------------------------------------
(* max_connections *)

RECURSIVE ShiftDiv(_, _, _, _)
\* <<floor(x * 2^k / d), remainder>> from <<q, r>> = <<x \div d, x % d>>,
\* by k doublings that stay inside 32 bits
ShiftDiv(q, r, k, d) ==
    IF k = 0 THEN <<q, r>>
    ELSE IF 2 * r >= d THEN ShiftDiv(2 * q + 1, 2 * r - d, k - 1, d)
    ELSE ShiftDiv(2 * q, 2 * r, k - 1, d)

\* AWSCostRepository.get_max_connections (legacy):
\* int(memory_gb * 1024**3 / 25165760), memory_gb in hundredths:
\* x * 2^30 / (100 * 25165760) = x * 2^22 / 9830375
get_max_connections(memory_gb) ==
    IF IsNumber(memory_gb)
        THEN LET connections ==
                     ShiftDiv(memory_gb.v \div 9830375, memory_gb.v % 9830375, 22, 9830375)[1]
             IN  PyInt(IF connections < 12000 THEN connections ELSE 12000)
    ELSE NA

\* AWSCostRepository._calculate_max_connections (layered): int(memory_gb * 100)
_calculate_max_connections(memory_gb) ==
    IF memory_gb.v <= 0 THEN PyInt(0) ELSE PyInt(memory_gb.v)

----------------------------------------------------------------------------
(* Record assembly: the body of the per-instance loop of                   *)
(* get_database_instances.  An entry d of response['DBInstances'] is       *)
(* [keys, id, engine, version, class, storage]: the keys present and their *)
(* values (storage in hundredths of a GB).  x is the bundle of API answers *)
(* for the instance:                                                       *)
(*   [cwclient, batch, cw, ec2, spx, strict, broad]                        *)
(* The result is [ok |-> the body completed, rec |-> the record appended]. *)

NoRecord == << >>

\* the keys the legacy loop body reads with db[...]
LegacyKeys == {"DBInstanceClass", "Engine", "AllocatedStorage", "DBInstanceIdentifier", "EngineVersion"}

\* the keys the layered loop body reads with db[...]
LayeredKeys == {"DBInstanceIdentifier", "Engine", "DBInstanceClass"}

\* repository.py, the body of `for db in response["DBInstances"]`
LegacyBody(region, d, x, total_days) ==
    IF ~(LegacyKeys \subseteq d.keys) \/ x.cwclient = "error"
        THEN [ok |-> FALSE, rec |-> NoRecord]       \* KeyError / client error
    ELSE LET total_hours == total_days * 24
             storage_gb == PyInt(d.storage)
             price_per_hour == get_rds_price(x.strict)
             total_price == IF price_per_hour.t = "str"
                                THEN PyFloat(RoundTo(price_per_hour.v * total_hours, 1000))
                                ELSE NA
             utilization == get_rds_utilization(x.cw, x.batch)
             specs == get_instance_specs(x.spx)
         IN  [ok |-> TRUE,
              rec |-> [DBIdentifier |-> d.id,
                       Region |-> region,
                       Engine |-> <<d.engine, d.version>>,
                       InstanceType |-> d.class,
                       vCPUs |-> specs.vcpus,
                       PricePerHour |-> price_per_hour,
                       Cost |-> total_price,
                       TotalMemoryGB |-> specs.memory_gb,
                       FreeMemoryAvg |-> utilization["FreeableMemory"],
                       TotalStorageGB |-> storage_gb,
                       FreeStorageAvg |-> utilization["FreeStorageSpace"],
                       CpuAvg |-> utilization["CPUUtilization"],
                       MaxConnections |-> get_max_connections(specs.memory_gb),
                       ConnectionsAvg |-> utilization["DatabaseConnections"],
                       SizingEvaluation |-> evaluate_instance_sizing(
                           utilization["CPUUtilization"],
                           utilization["FreeableMemory"],
                           specs.memory_gb,
                           utilization["FreeStorageSpace"],
                           storage_gb)]]

\* bytes (held in MiB) / (1024 ** 3), in hundredths of a GiB
BytesToGiB(value) == PyFloat(RoundHalfEven(value.v * 100, 1024))

\* aws_cost_repository.py, the body of the inner try of `for db in
\* response['DBInstances']`; handler_raises: the except handler's own
\* db['DBInstanceIdentifier'] raises KeyError
LayeredBody(region, d, x, window) ==
    IF ~(LayeredKeys \subseteq d.keys)
        THEN [ok |-> FALSE, rec |-> NoRecord,
              handler_raises |-> ~Has(d, "DBInstanceIdentifier")]
    ELSE LET metrics == _get_instance_metrics(x.cw)
             specs == _get_instance_specs(x.ec2, x.spx)
         IN  [ok |-> TRUE,
              handler_raises |-> FALSE,
              rec |-> [identifier |-> d.id,
                       region |-> region,
                       engine |-> <<d.engine,
                                    IF Has(d, "EngineVersion") THEN d.version ELSE "N/A">>,
                       instance_type |-> d.class,
                       vcpus |-> specs.vcpus,
                       price_per_hour |-> _get_instance_price(x.strict, x.broad),
                       total_memory_gb |-> specs.memory_gb,
                       total_storage_gb |->
                           PyFloat(IF Has(d, "AllocatedStorage") THEN d.storage ELSE 0),
                       metrics |-> [
                           cpu_utilization |-> metrics["CPUUtilization"],
                           free_memory_gb |-> BytesToGiB(metrics["FreeableMemory"]),
                           free_storage_gb |-> BytesToGiB(metrics["FreeStorageSpace"]),
                           connections_avg |-> metrics["DatabaseConnections"],
                           max_connections |-> _calculate_max_connections(specs.memory_gb)]]]

\* CostAnalyzer._evaluate_instance
_evaluate_instance(instance) ==
    [cpu |-> evaluate_cpu(instance.metrics.cpu_utilization),
     memory |-> evaluate_memory(instance.metrics.free_memory_gb, instance.total_memory_gb),
     storage |-> _evaluate_storage(instance.metrics.free_storage_gb, instance.total_storage_gb)]

\* CostAnalyzer.analyze_databases, the row built for one instance
AnalyzedRow(instance, window) ==
    LET evaluation == _evaluate_instance(instance)
        total == instance.total_storage_gb.v
        storage_used_gb == total - instance.metrics.free_storage_gb.v
        storage_percent == IF total > 0
                               THEN (storage_used_gb * 10000) \div total
                               ELSE 0
    IN  [DBIdentifier |-> instance.identifier,
         Region |-> instance.region,
         Engine |-> instance.engine,
         InstanceType |-> instance.instance_type,
         vCPUs |-> instance.vcpus,
         TotalMemoryGB |-> instance.total_memory_gb,
         FreeMemoryAvgMB |-> PyFloat(instance.metrics.free_memory_gb.v * 1024),
         TotalStorageGB |-> instance.total_storage_gb,
         StorageUsed |-> PyFloat(storage_percent),
         PricePerHour |-> PyFloat(instance.price_per_hour.v),
         TotalCost |-> PyFloat(RoundTo(instance.price_per_hour.v * 24 * window, 1000)),
         CpuAvg |-> instance.metrics.cpu_utilization,
         MaxConnections |-> instance.metrics.max_connections,
         ConnectionsAvg |-> instance.metrics.connections_avg,
         CpuStatus |-> evaluation.cpu,
         MemoryStatus |-> evaluation.memory,
         StorageStatus |-> evaluation.storage]

----------------------------------------------------------------------------
(* Values of the variables a specification does not use *)

RunIdle ==
    /\ pc = "idle" /\ regions = << >> /\ ridx = 0 /\ dbs = << >> /\ dbidx = 0
    /\ instances = << >> /\ clients = {} /\ hist = << >>

EnrichIdle ==
    /\ epc = "idle" /\ api = << >> /\ db = << >> /\ rec = << >> /\ row = << >>

SizingIdle ==
    /\ fn = "idle" /\ arg = << >> /\ ret = << >>

\* the loop body of the implementation that runs
Body(i, region, d, x, window) ==
    IF i = "legacy" THEN LegacyBody(region, d, x, window)
    ELSE LayeredBody(region, d, x, window)

----------------------------------------------------------------------------
(* The API answers and instance entries the specifications draw from *)

\* the longest window drawn, in days
MaxDays == 30

Windows == {1, MaxDays}

TheRegion == "eu-west-1"


Samples(pts) == [k |-> "ok", pts |-> pts]
MetricError == [k |-> "error", pts |-> << >>]

Attr(n, unit) == [tok |-> "num", n |-> n, unit |-> unit]
BadAttr == [tok |-> "bad", n |-> 0, unit |-> ""]
NoAttr == [tok |-> "absent", n |-> 0, unit |-> ""]

Usd(n) == [fmt |-> "dot", n |-> n]
UsdComma(n) == [fmt |-> "comma", n |-> n]
BadPrice == [fmt |-> "bad", n |-> 0]

Product(memory, vcpu, prices) == [memory |-> memory, vcpu |-> vcpu, prices |-> prices]
Priced(prices) == Product(Attr(6400, "gib"), Attr(1600, ""), prices)

Pricing(products) == [k |-> "ok", PriceList |-> products]
PricingError == [k |-> "error", PriceList |-> << >>]
NoMatch == Pricing(<< >>)

Ec2(types) == [k |-> "ok", InstanceTypes |-> types]
Ec2Error == [k |-> "error", InstanceTypes |-> << >>]

\* CPU samples in hundredths of a percent
CpuAnswers == {MetricError, Samples(<< >>), Samples(<<0>>), Samples(<<500, 2500>>), Samples(<<8500>>)}
\* connection counts in hundredths
ConnAnswers == {Samples(<< >>), Samples(<<1200>>)}
\* bytes in MiB: 2 GiB free memory, 50 GiB free storage
MemAnswers == {MetricError, Samples(<< >>), Samples(<<2048>>)}
StoAnswers == {MetricError, Samples(<< >>), Samples(<<51200>>)}

CwAnswers ==
    {("CPUUtilization" :> c) @@ ("DatabaseConnections" :> n)
        @@ ("FreeableMemory" :> m) @@ ("FreeStorageSpace" :> f) :
        <<c, n, m, f>> \in CpuAnswers \X ConnAnswers \X MemAnswers \X StoAnswers}

GoodCw ==
    ("CPUUtilization" :> Samples(<<8500>>)) @@ ("DatabaseConnections" :> Samples(<<1200>>))
        @@ ("FreeableMemory" :> Samples(<<2048>>)) @@ ("FreeStorageSpace" :> Samples(<<51200>>))

GoodPrice == Pricing(<<Priced(<<Usd(25000)>>)>>)

\* answers of get_products to the strict (Single-AZ) price query
StrictAnswers ==
    {PricingError, NoMatch, GoodPrice,
     Pricing(<<Priced(<<BadPrice>>)>>),
     Pricing(<<Priced(<<UsdComma(25000)>>)>>),
     Pricing(<<Priced(<<Usd(12346)>>)>>),
     Pricing(<<Priced(<<BadPrice, Usd(25000)>>)>>),
     Pricing(<<Priced(<<Usd(0)>>)>>)}

\* answers to the broader retry of the layered price query
BroadAnswers == {PricingError, NoMatch, Pricing(<<Priced(<<Usd(30000)>>)>>)}

\* answers of get_products to the specification query
SpecAnswers ==
    {PricingError, NoMatch,
     Pricing(<<Product(Attr(6400, "gib"), Attr(1600, ""), << >>)>>),
     Pricing(<<Product(BadAttr, Attr(1600, ""), << >>)>>),
     Pricing(<<Product(NoAttr, NoAttr, << >>)>>)}

\* answers of describe_instance_types: 16 vCPU, 64 GiB
Ec2Answers == {Ec2Error, Ec2(<< >>), Ec2(<<[vcpus |-> 16, mib |-> 65536]>>)}

Answers(cwclient, batch, cw, ec2, spx, strict, broad) ==
    [cwclient |-> cwclient, batch |-> batch, cw |-> cw, ec2 |-> ec2, spx |-> spx,
     strict |-> strict, broad |-> broad]

GoodAnswers ==
    Answers("ok", "ok", GoodCw, Ec2(<<[vcpus |-> 16, mib |-> 65536]>>),
            Pricing(<<Product(Attr(6400, "gib"), Attr(1600, ""), << >>)>>),
            GoodPrice, NoMatch)

\* <<EC2 answer, pricing answer>> pairs of a specification lookup: the
\* pricing API is asked only by the legacy code, or after EC2 raised
SpecSources(i) ==
    IF i = "legacy" THEN {Ec2Error} \X SpecAnswers
    ELSE ((Ec2Answers \ {Ec2Error}) \X {NoMatch}) \cup ({Ec2Error} \X SpecAnswers)

\* <<strict answer, broad answer>> pairs of a price lookup: the broad query
\* is made only by the layered code, after an empty strict answer
PriceSources(i) ==
    IF i = "legacy" THEN StrictAnswers \X {NoMatch}
    ELSE ((StrictAnswers \ {NoMatch}) \X {NoMatch}) \cup ({NoMatch} \X BroadAnswers)

\* the answers an enrichment can meet; only the legacy code makes a batch
\* metric call and obtains the CloudWatch client per instance
ApiAnswers(i) ==
    {Answers("ok", "ok", cw, sp[1], sp[2], pr[1], pr[2]) :
         <<cw, sp, pr>> \in CwAnswers \X SpecSources(i) \X PriceSources(i)}
    \cup (IF i = "legacy"
              THEN {[GoodAnswers EXCEPT !.batch = "error"],
                    [GoodAnswers EXCEPT !.cwclient = "error"]}
              ELSE {})

AllKeys == {"DBInstanceIdentifier", "Engine", "EngineVersion", "DBInstanceClass", "AllocatedStorage"}

DbEntry(id, keys, storage) ==
    [keys |-> keys, id |-> id, engine |-> "postgres", version |-> "14.7",
     class |-> "db.m5.4xlarge", storage |-> storage]

\* allocated storage drawn, in hundredths of a GB: none, 500 GB
StorageSizes == {0, 50000}

\* entries of a describe_db_instances response: complete, or lacking a key
DbEntries(id) ==
    {DbEntry(id, AllKeys, g) : g \in StorageSizes}
        \cup {DbEntry(id, AllKeys \ {key}, 50000) :
                  key \in {"EngineVersion", "Engine", "AllocatedStorage"}}

----------------------------------------------------------------------------
(* Spec: one run of get_database_instances.  The external calls answer     *)
(* nondeterministically; hist records what they did:                       *)
(*   enumeration  "none", "ok", "error" (describe_regions raised) or       *)
(*                "client_error" (the EC2 client could not be built)       *)
(*   list_calls   the regions describe_db_instances was called for, in     *)
(*                call order                                               *)
(*   list_failed  the regions whose describe_db_instances raised           *)
(*   client_failed the regions whose RDS / CloudWatch client raised        *)
(*   listed       <<region, entry>> for every entry a listing returned     *)
(*   enriched     <<region, id>> of the entries whose loop body completed  *)
(*   raised       <<region, id>> of the entries whose loop body raised     *)

\* the most regions describe_regions returns
MaxRegions == 2
\* the most instances one describe_db_instances response holds
MaxInstances == 2

RegionNames == <<"us-east-1", "eu-west-1", "ap-south-1", "sa-east-1">>

DbIds == <<"db-1", "db-2", "db-3", "db-4">>

\* the region lists describe_regions can return
RegionLists == {SubSeq(RegionNames, 1, n) : n \in 0..MaxRegions}

\* entries a listing holds: complete, or lacking the 'Engine' key
RunEntries(id) ==
    {DbEntry(id, AllKeys, 50000), DbEntry(id, AllKeys \ {"Engine"}, 50000)}

\* the responses of describe_db_instances: up to MaxInstances entries,
\* identified by their position
Listings ==
    UNION {{l \in [1..n -> UNION {RunEntries(DbIds[k]) : k \in 1..n}] :
                \A k \in 1..n : l[k].id = DbIds[k]} : n \in 0..MaxInstances}

\* the API answers of a run: everything resolves, or no catalog match and
\* no CPU data points
RunAnswers ==
    {GoodAnswers,
     [GoodAnswers EXCEPT !.strict = NoMatch,
                         !.cw = [GoodCw EXCEPT !["CPUUtilization"] = Samples(<< >>)]]}

NoHistory ==
    [enumeration |-> "none", list_calls |-> << >>, list_failed |-> {},
     client_failed |-> {}, listed |-> {}, enriched |-> {}, raised |-> {}]

\* self._region, the region of a client asked for without region_name
DefaultRegion == "us-east-1"

Init ==
    /\ impl \in Impls
    /\ days \in Windows
    /\ api \in RunAnswers
    /\ pc = "start"
    /\ regions = << >> /\ ridx = 0
    /\ dbs = << >> /\ dbidx = 0
    /\ instances = << >>
    /\ clients = {}
    /\ hist = NoHistory
    /\ db = << >> /\ rec = << >> /\ row = << >> /\ epc = "idle"
    /\ SizingIdle

\* DescribeRegions with the enumeration's exception swallowed: the run goes
\* on over no region
DescribeRegions_swallowed ==
    /\ pc = "start"
    /\ \/ /\ hist' = [hist EXCEPT !.enumeration = "client_error"]
          /\ regions' = << >> /\ ridx' = 1
          /\ pc' = "loop"
          /\ UNCHANGED clients
       \/ /\ hist' = [hist EXCEPT !.enumeration = "error"]
          /\ clients' = clients \cup {<<"ec2", DefaultRegion>>}
          /\ regions' = << >> /\ ridx' = 1
          /\ pc' = "loop"
       \/ \E rs \in RegionLists :
              /\ hist' = [hist EXCEPT !.enumeration = "ok"]
              /\ clients' = clients \cup {<<"ec2", DefaultRegion>>}
              /\ regions' = rs /\ ridx' = 1
              /\ pc' = "loop"
    /\ UNCHANGED <<impl, days, dbs, dbidx, instances, enrichVars, sizingVars>>

\* the EC2 client and describe_regions, outside every try: an exception
\* leaves get_database_instances
DescribeRegions ==
    /\ pc = "start"
    /\ \/ \* building the EC2 client raises
          /\ hist' = [hist EXCEPT !.enumeration = "client_error"]
          /\ pc' = "raised"
          /\ UNCHANGED <<regions, ridx, clients>>
       \/ \* describe_regions raises
          /\ hist' = [hist EXCEPT !.enumeration = "error"]
          /\ clients' = clients \cup {<<"ec2", DefaultRegion>>}
          /\ pc' = "raised"
          /\ UNCHANGED <<regions, ridx>>
       \/ \E rs \in RegionLists :
              /\ hist' = [hist EXCEPT !.enumeration = "ok"]
              /\ clients' = clients \cup {<<"ec2", DefaultRegion>>}
              /\ regions' = rs /\ ridx' = 1
              /\ pc' = "loop"
    /\ UNCHANGED <<impl, days, dbs, dbidx, instances, enrichVars, sizingVars>>

\* RegionExcept with the records gathered so far dropped
RegionExcept_reset ==
    /\ pc' = "loop" /\ ridx' = ridx + 1
    /\ dbs' = << >> /\ dbidx' = 0
    /\ instances' = << >>

\* `except Exception` of the region: the message is printed and the loop
\* goes on with the next region
RegionExcept ==
    /\ pc' = "loop" /\ ridx' = ridx + 1
    /\ dbs' = << >> /\ dbidx' = 0
    /\ UNCHANGED instances

\* the clients a region's iteration builds before it lists: RDS, and in the
\* layered code CloudWatch
RegionClients(i) == IF i = "layered" THEN <<"rds", "cloudwatch">> ELSE <<"rds">>

\* the start of a region's iteration: the regional clients and
\* describe_db_instances.  The layered code builds the RDS and CloudWatch
\* clients inside the region's try; the legacy code builds the RDS client
\* before its try
BeginRegion ==
    /\ pc = "loop" /\ ridx <= Len(regions)
    /\ LET region == regions[ridx]
           wanted == RegionClients(impl)
           all == {<<wanted[n], region>> : n \in DOMAIN wanted}
       IN  \/ \* building the n-th client raises, the ones before it are cached
              \E n \in DOMAIN wanted :
                  /\ <<wanted[n], region>> \notin clients
                  /\ clients' = clients \cup {<<wanted[m], region>> : m \in 1..(n - 1)}
                  /\ hist' = [hist EXCEPT !.client_failed = @ \cup {region}]
                  /\ IF impl = "legacy"
                         THEN pc' = "raised" /\ UNCHANGED <<ridx, dbs, dbidx, instances>>
                         ELSE RegionExcept
           \/ \* describe_db_instances raises
              /\ clients' = clients \cup all
              /\ hist' = [hist EXCEPT !.list_calls = Append(@, region),
                                      !.list_failed = @ \cup {region}]
              /\ RegionExcept
           \/ \* describe_db_instances answers
              \E response \in Listings :
                  /\ clients' = clients \cup all
                  /\ hist' = [hist EXCEPT
                                 !.list_calls = Append(@, region),
                                 !.listed = @ \cup {<<region, response[k]>> : k \in DOMAIN response}]
                  /\ dbs' = response /\ dbidx' = 1
                  /\ pc' = "region"
                  /\ UNCHANGED <<ridx, instances>>
    /\ UNCHANGED <<impl, days, regions, enrichVars, sizingVars>>

\* the client keys one pass of the loop body has built when the CloudWatch
\* client answered cwclient: the pricing client once the entry's keys were
\* read, and in the legacy code the region's CloudWatch client
BodyClients(i, region, d, cwclient) ==
    IF i = "legacy"
        THEN (IF {"DBInstanceClass", "Engine", "AllocatedStorage"} \subseteq d.keys
                  THEN {<<"pricing", DefaultRegion>>} ELSE {})
             \cup (IF {"DBInstanceClass", "Engine", "AllocatedStorage",
                       "DBInstanceIdentifier"} \subseteq d.keys /\ cwclient = "ok"
                       THEN {<<"cloudwatch", region>>} ELSE {})
        ELSE IF LayeredKeys \subseteq d.keys THEN {<<"pricing", DefaultRegion>>} ELSE {}

\* AppendRecord with the new record put in front
AppendRecord_front(list, r) == <<r>> \o list

\* instances.append(...)
AppendRecord(list, r) == Append(list, r)

\* one iteration of `for db in response['DBInstances']`
ProcessInstance ==
    /\ pc = "region" /\ dbidx <= Len(dbs)
    /\ LET region == regions[ridx]
           d == dbs[dbidx]
       IN  \E cwclient \in (IF impl = "legacy" /\ <<"cloudwatch", region>> \notin clients
                                THEN {"ok", "error"} ELSE {"ok"}) :
               LET body == Body(impl, region, d, [api EXCEPT !.cwclient = cwclient], days)
               IN  /\ clients' = clients \cup BodyClients(impl, region, d, cwclient)
                   /\ IF body.ok
                          THEN /\ instances' = AppendRecord(instances, body.rec)
                               /\ dbidx' = dbidx + 1
                               /\ hist' = [hist EXCEPT !.enriched = @ \cup {<<region, d.id>>}]
                               /\ UNCHANGED <<pc, ridx, dbs>>
                          ELSE /\ hist' = [hist EXCEPT !.raised = @ \cup {<<region, d.id>>}]
                               /\ IF impl = "layered" /\ ~body.handler_raises
                                      \* the instance's own `except Exception`
                                      THEN /\ dbidx' = dbidx + 1
                                           /\ UNCHANGED <<pc, ridx, dbs, instances>>
                                      \* no handler in the loop: the region's handler
                                      ELSE RegionExcept
    /\ UNCHANGED <<impl, days, regions, enrichVars, sizingVars>>

\* the instance loop is exhausted: next region
EndRegion ==
    /\ pc = "region" /\ dbidx > Len(dbs)
    /\ pc' = "loop" /\ ridx' = ridx + 1
    /\ dbs' = << >> /\ dbidx' = 0
    /\ UNCHANGED <<impl, days, regions, instances, clients, hist, enrichVars, sizingVars>>

\* the region loop is exhausted: return instances
Return ==
    /\ pc = "loop" /\ ridx > Len(regions)
    /\ pc' = "returned"
    /\ UNCHANGED <<impl, days, regions, ridx, dbs, dbidx, instances, clients, hist, enrichVars, sizingVars>>

Next == DescribeRegions \/ BeginRegion \/ ProcessInstance \/ EndRegion \/ Return

Spec == Init /\ [][Next]_vars

\* the region and the identifier a record of `instances` carries
RecordRegion(r) == IF impl = "layered" THEN r.region ELSE r.Region

RecordId(r) == IF impl = "layered" THEN r.identifier ELSE r.DBIdentifier

\* the result holds a record of entry id of region
Returned(region, id) ==
    \E k \in DOMAIN instances :
        RecordRegion(instances[k]) = region /\ RecordId(instances[k]) = id

\* C1: when get_database_instances returns, the result holds no record of a
\* region whose describe_db_instances raised, and it holds the record of
\* every instance that was enriched in a region whose listing answered.
C1_ListingFailureIsolated ==
    pc = "returned" =>
        /\ \A k \in DOMAIN instances :
               RecordRegion(instances[k]) \notin hist.list_failed
        /\ \A e \in hist.enriched :
               e[1] \notin hist.list_failed => Returned(e[1], e[2])

\* a run returned in which one region's listing raised, after a region that
\* contributed a record and that record is in the result
C1_Witness ==
    /\ pc = "returned"
    /\ \E k \in DOMAIN regions :
           /\ regions[k] \in hist.list_failed
           /\ \E j \in 1..(k - 1), e \in hist.enriched :
                  e[1] = regions[j] /\ Returned(e[1], e[2])

\* C2: when get_database_instances returns, every listed instance whose own
\* enrichment did not raise has its record in the result, whatever happened
\* to the other instances of its region.
C2_InstanceErrorSkipsOnlyThatInstance ==
    pc = "returned" =>
        \A l \in hist.listed :
            <<l[1], l[2].id>> \notin hist.raised => Returned(l[1], l[2].id)

\* C3: no exception leaves get_database_instances once describe_regions
\* has answered.
C3_RunCompletes ==
    pc = "raised" => hist.enumeration # "ok"

\* C4: when the EC2 client or describe_regions raises, the exception leaves
\* get_database_instances: nothing is listed, nothing is enriched, and the
\* function does not return a list.
C4_EnumerationFailureFatal ==
    /\ hist.enumeration \in {"error", "client_error"} =>
           /\ pc = "raised"
           /\ instances = << >>
           /\ hist.list_calls = << >>
           /\ hist.listed = {} /\ hist.enriched = {}
    /\ pc = "returned" => hist.enumeration = "ok"

\* describe_regions raised and the exception left the function
C4_Witness ==
    pc = "raised" /\ hist.enumeration = "error"

\* C24: in every step of a discovery run the result keeps the records it
\* already holds, unchanged and in place, and grows only by records appended
\* for the instance being processed: never for an instance that raised
\* before, nor for a region whose listing or clients failed.
C24_ResultOnlyGrows ==
    [][/\ Len(instances') >= Len(instances)
       /\ \A k \in DOMAIN instances : instances'[k] = instances[k]
       /\ \A k \in DOMAIN instances' \ DOMAIN instances :
              /\ pc = "region"
              /\ RecordRegion(instances'[k]) = regions[ridx]
              /\ RecordId(instances'[k]) = dbs[dbidx].id
              /\ <<regions[ridx], dbs[dbidx].id>> \notin hist.raised
              /\ regions[ridx] \notin hist.list_failed \cup hist.client_failed]_vars

\* a run returned the record of db-1 of a region whose db-2, processed after
\* it, raised
C24_Witness ==
    /\ pc = "returned"
    /\ \E k \in DOMAIN instances, e \in hist.raised :
           /\ RecordRegion(instances[k]) = e[1]
           /\ RecordId(instances[k]) = "db-1" /\ e[2] = "db-2"

\* the place of a region in the list describe_regions returned
Position(region) == CHOOSE n \in DOMAIN regions : regions[n] = region

\* the listing calls made so far are in catalogue order, one per region at
\* most, and none is for a region the loop has not reached
NothingRetried ==
    /\ \A j, k \in DOMAIN hist.list_calls :
           j < k => Position(hist.list_calls[j]) < Position(hist.list_calls[k])
    /\ \A k \in DOMAIN hist.list_calls : Position(hist.list_calls[k]) <= ridx

\* once the run is over, every region of the catalogue had its iteration:
\* its listing was called, or building its clients raised
EveryRegionVisited ==
    (hist.enumeration = "ok" /\ pc \in {"returned", "raised"}) =>
        \A n \in DOMAIN regions :
            \/ \E k \in DOMAIN hist.list_calls : hist.list_calls[k] = regions[n]
            \/ regions[n] \in hist.client_failed

\* C25: in one discovery run every region of the catalogue is visited
\* exactly once, in catalogue order, and its listing is called at most once
\* whether it answers or raises; no region is visited again.
C25_RegionsVisitedOnce == NothingRetried /\ EveryRegionVisited

----------------------------------------------------------------------------
(* SpecEnrich: the enrichment of one listed instance, on every combination *)
(* of API answers, and its report row.                                     *)

EnrichInit ==
    /\ impl \in Impls
    /\ days \in Windows
    /\ \/ db \in {DbEntry("db-1", AllKeys, g) : g \in StorageSizes} /\ api \in ApiAnswers(impl)
       \/ db \in DbEntries("db-1") /\ api = GoodAnswers
    /\ epc = "input" /\ rec = << >> /\ row = << >>
    /\ RunIdle /\ SizingIdle

\* one pass of the loop body over the instance: the record is built, or the
\* body raises and the instance gives no record
EnrichInstance ==
    /\ epc = "input"
    /\ LET body == Body(impl, TheRegion, db, api, days)
       IN  IF body.ok
               THEN epc' = "enriched" /\ rec' = body.rec
               ELSE epc' = "skipped" /\ rec' = rec
    /\ UNCHANGED <<impl, days, api, db, row, runVars, sizingVars>>

\* CostAnalyzer.analyze_databases on the record (layered; the legacy CLI
\* prints the repository's records as they are)
AnalyzeInstance ==
    /\ epc = "enriched" /\ impl = "layered"
    /\ row' = AnalyzedRow(rec, days)
    /\ epc' = "analyzed"
    /\ UNCHANGED <<impl, days, api, db, rec, runVars, sizingVars>>

EnrichNext == EnrichInstance \/ AnalyzeInstance

SpecEnrich == EnrichInit /\ [][EnrichNext]_vars

\* the record has reached the report: the legacy record as built, the
\* layered record once analyzed
Emitted == (impl = "legacy" /\ epc = "enriched") \/ (impl = "layered" /\ epc = "analyzed")

\* the fields of the emitted record, whichever implementation built it
OutPrice == IF impl = "legacy" THEN rec.PricePerHour ELSE row.PricePerHour
OutCost == IF impl = "legacy" THEN rec.Cost ELSE row.TotalCost
OutCpuStatus == IF impl = "legacy" THEN rec.SizingEvaluation[1] ELSE row.CpuStatus
OutMemoryStatus == IF impl = "legacy" THEN rec.SizingEvaluation[2] ELSE row.MemoryStatus
OutStorageStatus == IF impl = "legacy" THEN rec.SizingEvaluation[3] ELSE row.StorageStatus

----------------------------------------------------------------------------
(* Claims about one instance's record (checked under SpecEnrich) *)

\* the metric had no data points, or its query failed: the metric's own
\* get_metric_statistics call (layered); the batch get_metric_data call, or
\* no values in the metric's result of a complete response (legacy)
MetricUnavailable(m) ==
    IF impl = "layered" THEN api.cw[m].k = "error" \/ api.cw[m].pts = << >>
    ELSE \/ api.batch = "error"
         \/ /\ \A n \in DOMAIN api.cw : api.cw[n].k = "ok"
            /\ api.cw[m].pts = << >>

\* no source gave a specification for the instance class
TotalMemoryUnresolved ==
    IF impl = "legacy"
        THEN api.spx.k = "error" \/ api.spx.PriceList = << >>
        ELSE \/ api.ec2.k = "ok" /\ api.ec2.InstanceTypes = << >>
             \/ api.ec2.k = "error" /\ (api.spx.k = "error" \/ api.spx.PriceList = << >>)

\* C5: in every emitted record, a CPU, freeable-memory or free-storage
\* metric without data points or with a failed query, or an unresolved total
\* memory, makes the corresponding sizing classification "Insufficient
\* Data", never a classification computed from a substituted 0.
C5_InsufficientData ==
    Emitted =>
        /\ MetricUnavailable("CPUUtilization")
               => OutCpuStatus.status = "Insufficient Data"
        /\ (MetricUnavailable("FreeableMemory") \/ TotalMemoryUnresolved)
               => OutMemoryStatus.status = "Insufficient Data"
        /\ MetricUnavailable("FreeStorageSpace")
               => OutStorageStatus.status = "Insufficient Data"

\* the pricing answer the price is read from
Consulted ==
    IF impl = "layered" /\ api.strict = NoMatch THEN api.broad ELSE api.strict

PriceApiError == api.strict.k = "error" \/ Consulted.k = "error"

PriceNoMatch == Consulted = NoMatch

PriceMalformed ==
    /\ Consulted.k = "ok" /\ Consulted.PriceList # << >>
    /\ LET prices == Consulted.PriceList[1].prices
       IN  prices # << >> /\ \A n \in DOMAIN prices : prices[n].fmt = "bad"

\* what the price resolver returned for the instance
ResolvedPrice == IF impl = "legacy" THEN rec.PricePerHour ELSE rec.price_per_hour

\* C6: the price resolver returns the explicit Unavailable value, never the
\* number zero, when the catalog has no match, the price string is
\* malformed, or the pricing call raises.
C6_PriceUnavailable ==
    (epc \in {"enriched", "analyzed"} /\ (PriceApiError \/ PriceNoMatch \/ PriceMalformed))
        => ResolvedPrice = NA

\* the emitted record of an instance, as a function of the API answers
Report(i, d, x, window) ==
    IF i = "legacy" THEN LegacyBody(TheRegion, d, x, window).rec
    ELSE AnalyzedRow(LayeredBody(TheRegion, d, x, window).rec, window)

\* the specification, utilization and sizing fields of an emitted record
OtherFields(i, r) ==
    IF i = "legacy"
        THEN <<r.vCPUs, r.TotalMemoryGB, r.FreeMemoryAvg, r.TotalStorageGB, r.FreeStorageAvg,
               r.CpuAvg, r.MaxConnections, r.ConnectionsAvg, r.SizingEvaluation>>
        ELSE <<r.vCPUs, r.TotalMemoryGB, r.FreeMemoryAvgMB, r.TotalStorageGB, r.StorageUsed,
               r.CpuAvg, r.MaxConnections, r.ConnectionsAvg,
               <<r.CpuStatus, r.MemoryStatus, r.StorageStatus>> >>

\* C7: in every emitted record the total cost is price_per_hour * 24 *
\* window_days (exactly, or to the cent) when the price was resolved; when
\* the price lookup found no catalog match, price and total cost are both
\* Unavailable, and the specification, utilization and sizing fields are
\* what they are with the price available.
C7_TotalCost ==
    Emitted =>
        /\ (OutPrice # NA) =>
               /\ OutCost # NA
               /\ \/ OutCost.v = OutPrice.v * 24 * days
                  \/ OutCost.v = RoundTo(OutPrice.v * 24 * days, 1000)
        /\ PriceNoMatch =>
               /\ OutPrice = NA /\ OutCost = NA
               /\ OtherFields(impl, IF impl = "legacy" THEN rec ELSE row)
                      = OtherFields(impl, Report(impl, db, [api EXCEPT !.strict = GoodPrice], days))

----------------------------------------------------------------------------
(* SpecSizing: the sizing evaluators as pure functions.  Init draws the    *)
(* arguments, one action per evaluated dimension applies the evaluator of  *)
(* the implementation.                                                     *)

\* largest CPU average drawn, in hundredths of a percent
MaxCpu == 10000
\* largest free / total size drawn, in hundredths of a GB
MaxFree == 40
MaxTotal == 40

\* the pairs of section 8's scenario: 2 GB free of 64 GB, 50 GB free of 500 GB
ScenarioPairs == {<<200, 6400>>, <<5000, 50000>>}

SizePairs == ((0..MaxFree) \X (0..MaxTotal)) \cup ScenarioPairs

CpuArgs(i) ==
    {<<PyFloat(p)>> : p \in 0..MaxCpu}
        \cup (IF i = "legacy" THEN {<<NA>>} ELSE {<<PyInt(0)>>})

SizeArgs(i) ==
    {<<PyFloat(p[1]), PyFloat(p[2])>> : p \in SizePairs}
        \cup (IF i = "legacy"
                THEN {<<NA, PyFloat(16)>>, <<PyFloat(2), NA>>, <<NA, NA>>}
                ELSE {<<PyInt(0), PyInt(0)>>, <<PyInt(0), PyFloat(16)>>})

\* largest memory size drawn for max_connections, in quarters of a GiB
MaxQuarters == 40

\* memory sizes in hundredths of a GiB: the quarters of a GiB up to
\* MaxQuarters, 64 and 128 GiB, 123.07 GiB, and the sizes around the 12000
\* ceiling (281.25 GiB is 12000 slots of 24 MiB)
MemorySizes ==
    {25 * q : q \in 0..MaxQuarters} \cup {6400, 12000, 12025, 12307, 12800, 28100, 28125, 28150, 102400}

\* two memory sizes, the smaller first; what the spec resolver gives when
\* it resolves nothing: 'N/A' (legacy), the int 0 (layered)
ConnArgs(i) ==
    {<<PyFloat(a), PyFloat(b)>> : <<a, b>> \in {p \in MemorySizes \X MemorySizes : p[1] <= p[2]}}
        \cup (IF i = "legacy" THEN {<<NA, NA>>} ELSE {<<PyInt(0), PyInt(0)>>})

SizingInit ==
    /\ impl \in Impls
    /\ days = 1
    /\ fn \in {"cpu", "memory", "storage", "max_connections"}
    /\ arg \in (CASE fn = "cpu" -> CpuArgs(impl)
                  [] fn = "max_connections" -> ConnArgs(impl)
                  [] OTHER -> SizeArgs(impl))
    /\ ret = << >>
    /\ RunIdle /\ EnrichIdle

\* instance.metrics.evaluate_cpu() / the CPU text of evaluate_instance_sizing
EvaluateCpu ==
    /\ fn = "cpu" /\ ret = << >>
    /\ ret' = <<IF impl = "layered"
                   THEN evaluate_cpu(arg[1])
                   ELSE evaluate_instance_sizing(arg[1], NA, NA, NA, NA)[1]>>
    /\ UNCHANGED <<impl, days, fn, arg, runVars, enrichVars>>

\* instance.metrics.evaluate_memory(total) / the memory text of evaluate_instance_sizing
EvaluateMemory ==
    /\ fn = "memory" /\ ret = << >>
    /\ ret' = <<IF impl = "layered"
                   THEN evaluate_memory(arg[1], arg[2])
                   ELSE evaluate_instance_sizing(NA, arg[1], arg[2], NA, NA)[2]>>
    /\ UNCHANGED <<impl, days, fn, arg, runVars, enrichVars>>

\* self._evaluate_storage(free, total) / the storage text of evaluate_instance_sizing
EvaluateStorage ==
    /\ fn = "storage" /\ ret = << >>
    /\ ret' = <<IF impl = "layered"
                   THEN _evaluate_storage(arg[1], arg[2])
                   ELSE evaluate_instance_sizing(NA, NA, NA, arg[1], arg[2])[3]>>
    /\ UNCHANGED <<impl, days, fn, arg, runVars, enrichVars>>

\* max_connections of an implementation
MaxConnectionsOf(i, memory_gb) ==
    IF i = "layered" THEN _calculate_max_connections(memory_gb)
    ELSE get_max_connections(memory_gb)

\* self._calculate_max_connections(memory_gb) / self.get_max_connections(memory_gb),
\* applied to each of the two sizes
MaxConnections ==
    /\ fn = "max_connections" /\ ret = << >>
    /\ ret' = <<MaxConnectionsOf(impl, arg[1]), MaxConnectionsOf(impl, arg[2])>>
    /\ UNCHANGED <<impl, days, fn, arg, runVars, enrichVars>>

SizingNext == EvaluateCpu \/ EvaluateMemory \/ EvaluateStorage \/ MaxConnections

SpecSizing == SizingInit /\ [][SizingNext]_vars

----------------------------------------------------------------------------
(* Claims about the sizing evaluators (checked under SpecSizing) *)

Evaluated(f) == fn = f /\ ret # << >>

NumericPair == IsNumber(arg[1]) /\ IsNumber(arg[2])

\* C8: for every numeric CPU percentage p, in both implementations, p > 80
\* is "High Usage", p < 20 is "Low Usage", and 20 <= p <= 80 (20 and 80
\* included) is "Optimal".
C8_CpuThresholds ==
    (Evaluated("cpu") /\ IsNumber(arg[1])) =>
        LET p == arg[1].v
        IN  /\ ret[1].dim = "CPU"
            /\ (p > 8000) => ret[1].status = "High Usage"
            /\ (p < 2000) => ret[1].status = "Low Usage"
            /\ (2000 <= p /\ p <= 8000) => ret[1].status = "Optimal"

\* C8 witness: exactly 80% has been classified "Optimal" by the layered evaluator
C8_Witness ==
    /\ Evaluated("cpu") /\ impl = "layered"
    /\ arg[1] = PyFloat(8000) /\ ret[1].status = "Optimal"

\* C9: for every numeric (free, total) with total > 0, in both
\* implementations, free/total*100 < 5 is "Critically Low", 5 <= it < 15 is
\* "Low", it >= 15 is "Optimal"; exactly 5% is "Low", exactly 15% "Optimal".
C9_MemoryThresholds ==
    (Evaluated("memory") /\ NumericPair /\ arg[2].v > 0) =>
        LET free == arg[1].v
            total == arg[2].v
        IN  /\ ret[1].dim = "Memory"
            /\ (free * 100 < 5 * total) => ret[1].status = "Critically Low"
            /\ (5 * total <= free * 100 /\ free * 100 < 15 * total)
                    => ret[1].status = "Low"
            /\ (free * 100 >= 15 * total) => ret[1].status = "Optimal"

\* C9 witness: exactly 5% free (1 of 20) has been classified "Low" by the
\* layered evaluator
C9_Witness ==
    /\ Evaluated("memory") /\ impl = "layered"
    /\ arg = <<PyFloat(1), PyFloat(20)>> /\ ret[1].status = "Low"

\* C10: for every numeric (free, total) with total > 0, in both
\* implementations, free/total*100 < 10 is "Critically Low", 10 <= it < 25
\* is "Low", it >= 25 is "Optimal"; 50 GB free of 500 GB is "Low".
C10_StorageThresholds ==
    (Evaluated("storage") /\ NumericPair /\ arg[2].v > 0) =>
        LET free == arg[1].v
            total == arg[2].v
        IN  /\ ret[1].dim = "Storage"
            /\ (free * 100 < 10 * total) => ret[1].status = "Critically Low"
            /\ (10 * total <= free * 100 /\ free * 100 < 25 * total)
                    => ret[1].status = "Low"
            /\ (free * 100 >= 25 * total) => ret[1].status = "Optimal"

\* C10 witness: 50 GB free of 500 GB (exactly 10%) has been classified
\* "Low (10.0% free)" by the layered evaluator
C10_Witness ==
    /\ Evaluated("storage") /\ impl = "layered"
    /\ arg = <<PyFloat(5000), PyFloat(50000)>>
    /\ ret[1] = TextPct("Storage", "Low", 100)

\* C11: when the total is 0, the memory classification and the storage
\* classification are "Insufficient Data" in both implementations, for any
\* free value: no percentage, no "Calculation Error".
C11_ZeroTotalInsufficient ==
    ((Evaluated("memory") \/ Evaluated("storage")) /\ NumericPair /\ arg[2].v = 0) =>
        ret[1].status = "Insufficient Data" /\ ret[1].pct = << >>

\* min(floor(memory_bytes / 25165824), 12000) with memory_bytes = memory_gb * 2^30
\* and memory_gb = x / 100: x * 2^30 / (100 * 24 * 2^20) = x * 32 / 75
SlotsOf24MiB(x) ==
    LET slots == (x * 32) \div 75
    IN  IF slots < 12000 THEN slots ELSE 12000

\* C12: for every resolved memory size, max_connections is
\* min(floor(memory_bytes / 25165824), 12000), memory_bytes = memory_gb * 2^30,
\* in both implementations.
C12_MaxConnectionsFormula ==
    (Evaluated("max_connections") /\ NumericPair) =>
        \A k \in 1..2 :
            arg[k].v > 0 => ret[k] = PyInt(SlotsOf24MiB(arg[k].v))

\* C13: in both implementations max_connections is non-decreasing in
\* memory_gb, never above 12000, never negative, and 0 for memory 0.
C13_MaxConnectionsBounded ==
    (Evaluated("max_connections") /\ NumericPair) =>
        /\ ret[1].v <= ret[2].v
        /\ \A k \in 1..2 :
               /\ ret[k].v <= 12000
               /\ ret[k].v >= 0
               /\ arg[k].v = 0 => ret[k].v = 0

----------------------------------------------------------------------------
(* SpecEngine: engine normalization.  A string is the sequence of its      *)
(* characters, so that lower() and the substring test `k in s` are         *)
(* computed.  Init draws a raw engine name and a resolver; the resolver's  *)
(* normalization is applied, and applied again to its own result.          *)

\* the upper-case letters of the names in use, and their lower case
UpperToLower ==
    [c \in {"A", "B", "D", "L", "M", "O", "P", "Q", "S", "Y"} |->
        CASE c = "A" -> "a" [] c = "B" -> "b" [] c = "D" -> "d" [] c = "L" -> "l"
          [] c = "M" -> "m" [] c = "O" -> "o" [] c = "P" -> "p" [] c = "Q" -> "q"
          [] c = "S" -> "s" [] c = "Y" -> "y"]

\* str.lower()
lower(s) == [n \in DOMAIN s |-> IF s[n] \in DOMAIN UpperToLower THEN UpperToLower[s[n]] ELSE s[n]]

\* k in s
Contains(k, s) ==
    \E n \in 1..(Len(s) - Len(k) + 1) : SubSeq(s, n, n + Len(k) - 1) = k

\* ENGINE_MAPPING, in the order of the dict literal
ENGINE_MAPPING ==
    <<<<<<"p", "o", "s", "t", "g", "r", "e", "s">>,
        <<"P", "o", "s", "t", "g", "r", "e", "S", "Q", "L">>>>,
      <<<<"a", "u", "r", "o", "r", "a", "-", "p", "o", "s", "t", "g", "r", "e", "s", "q", "l">>,
        <<"A", "u", "r", "o", "r", "a", " ", "P", "o", "s", "t", "g", "r", "e", "S", "Q", "L">>>>,
      <<<<"m", "y", "s", "q", "l">>,
        <<"M", "y", "S", "Q", "L">>>>,
      <<<<"m", "a", "r", "i", "a", "d", "b">>,
        <<"M", "a", "r", "i", "a", "D", "B">>>>,
      <<<<"o", "r", "a", "c", "l", "e", "-", "s", "e", "2">>,
        <<"O", "r", "a", "c", "l", "e">>>>,
      <<<<"s", "q", "l", "s", "e", "r", "v", "e", "r", "-", "s", "e">>,
        <<"S", "Q", "L", " ", "S", "e", "r", "v", "e", "r">>>>>>

\* FirstMatch with the last matching entry winning
FirstMatch_last(n, lowered, default) ==
    LET hits == {m \in n..Len(ENGINE_MAPPING) : Contains(ENGINE_MAPPING[m][1], lowered)}
    IN  IF hits = {} THEN default
        ELSE ENGINE_MAPPING[CHOOSE m \in hits : \A h \in hits : h <= m][2]

RECURSIVE FirstMatch(_, _, _)
\* next((v for k, v in ENGINE_MAPPING.items() if k in lowered), default)
FirstMatch(n, lowered, default) ==
    IF n > Len(ENGINE_MAPPING) THEN default
    ELSE IF Contains(ENGINE_MAPPING[n][1], lowered) THEN ENGINE_MAPPING[n][2]
    ELSE FirstMatch(n + 1, lowered, default)

\* the normalization of get_rds_price, get_instance_specs (legacy) and
\* _get_instance_specs (layered)
normalized_engine(engine) == FirstMatch(1, lower(engine), engine)

\* the normalization of _get_instance_price (layered): 'postgres' is tested
\* first, then the table
price_normalized_engine(engine) ==
    IF Contains(<<"p", "o", "s", "t", "g", "r", "e", "s">>, lower(engine))
        THEN <<"P", "o", "s", "t", "g", "r", "e", "S", "Q", "L">>
    ELSE FirstMatch(1, lower(engine), engine)

\* the normalization a resolver of an implementation applies
NormalizeIn(i, resolver, engine) ==
    IF i = "layered" /\ resolver = "price" THEN price_normalized_engine(engine)
    ELSE normalized_engine(engine)

\* raw engine names: the keys of the table, other engines, and the
\* canonical names
MappingKeys == {ENGINE_MAPPING[n][1] : n \in DOMAIN ENGINE_MAPPING}

MappingValues == {ENGINE_MAPPING[n][2] : n \in DOMAIN ENGINE_MAPPING}

OtherEngines ==
    {<<"a", "u", "r", "o", "r", "a", "-", "m", "y", "s", "q", "l">>,
     <<"a", "u", "r", "o", "r", "a">>,
     <<"o", "r", "a", "c", "l", "e", "-", "e", "e">>,
     <<"s", "q", "l", "s", "e", "r", "v", "e", "r", "-", "e", "x">>,
     <<"d", "o", "c", "d", "b">>,
     <<"n", "e", "p", "t", "u", "n", "e">>,
     <<"P", "o", "s", "t", "g", "r", "e", "s">>,
     <<"M", "Y", "S", "Q", "L">>,
     <<"c", "u", "s", "t", "o", "m", "-", "o", "r", "a", "c", "l", "e", "-", "s", "e", "2", "-", "c", "d", "b">>,
     <<"d", "b", "2", "-", "s", "e">>}

Engines == MappingKeys \cup MappingValues \cup OtherEngines

EngineInit ==
    /\ impl \in Impls
    /\ days = 1
    /\ fn \in {"price", "specs"}
    /\ arg \in {<<e>> : e \in Engines}
    /\ ret = << >>
    /\ RunIdle /\ EnrichIdle

\* the resolver normalizes the raw engine
Normalize ==
    /\ fn \in {"price", "specs"} /\ ret = << >>
    /\ ret' = <<NormalizeIn(impl, fn, arg[1])>>
    /\ UNCHANGED <<impl, days, fn, arg, runVars, enrichVars>>

\* the resolver normalizes the name it produced
NormalizeAgain ==
    /\ fn \in {"price", "specs"} /\ Len(ret) = 1
    /\ ret' = Append(ret, NormalizeIn(impl, fn, ret[1]))
    /\ UNCHANGED <<impl, days, fn, arg, runVars, enrichVars>>

EngineNext == Normalize \/ NormalizeAgain

SpecEngine == EngineInit /\ [][EngineNext]_vars

\* the table entry of a key
EntryOf(key) == CHOOSE n \in DOMAIN ENGINE_MAPPING : ENGINE_MAPPING[n][1] = key

\* C14: normalization maps each key of ENGINE_MAPPING to the canonical name
\* of its own entry ("aurora-postgresql" to "Aurora PostgreSQL", ...), and
\* returns unchanged an engine that contains no key.
C14_EngineNormalization ==
    (fn \in {"price", "specs"} /\ ret # << >>) =>
        /\ arg[1] \in MappingKeys => ret[1] = ENGINE_MAPPING[EntryOf(arg[1])][2]
        /\ (\A k \in MappingKeys : ~Contains(k, lower(arg[1]))) => ret[1] = arg[1]

\* C15: normalization is idempotent on the table: for every key x,
\* normalizing the normalized x gives the normalized x.
C15_NormalizationIdempotent ==
    (fn \in {"price", "specs"} /\ Len(ret) = 2 /\ arg[1] \in MappingKeys) =>
        ret[2] = ret[1]

\* "aurora-postgresql" was normalized twice by the layered price resolver
C15_Witness ==
    /\ fn = "price" /\ impl = "layered" /\ Len(ret) = 2
    /\ arg[1] = <<"a", "u", "r", "o", "r", "a", "-", "p", "o", "s", "t", "g", "r", "e", "s", "q", "l">>
    /\ ret[2] = ret[1]

----------------------------------------------------------------------------
(* SpecSpecs: the specification resolvers and the memory-string parser as  *)
(* pure functions.  Init draws a memory string (for _convert_to_gb) or the *)
(* answers of the EC2 and pricing APIs (for the resolver).                 *)

\* largest whole number of GiB written in a drawn memory string
MaxAttrGiB == 8

\* memory strings "<number> <unit>" and "<number>": n in hundredths; the
\* MiB numbers are multiples of 1024 hundredths, so that number / 1024 is exact
MemoryStrings ==
    {Attr(n, u) : n \in {0, 50, 6400} \cup {100 * g : g \in 1..MaxAttrGiB}, u \in {"gib", ""}}
        \cup {Attr(n, "mib") : n \in {0, 51200, 102400, 6553600}}
        \cup {Attr(n, "tib") : n \in {50, 100, 200}}

\* vcpu strings: "16", "2", "1.5", a string that is no number, no such key
VcpuStrings == {Attr(1600, ""), Attr(200, ""), Attr(150, ""), BadAttr, NoAttr}

\* the answers of get_products to a specification query
ProductAnswers ==
    {PricingError, NoMatch}
        \cup {Pricing(<<Product(m, v, << >>)>>) :
                  m \in MemoryStrings \cup {BadAttr, NoAttr}, v \in VcpuStrings}

\* <<EC2 answer, pricing answer>>: the legacy resolver asks only the pricing
\* API, the layered one asks it only when EC2 raised
LookupAnswers(i) ==
    IF i = "legacy" THEN {<<Ec2Error, p>> : p \in ProductAnswers}
    ELSE {<<e, NoMatch>> : e \in Ec2Answers \ {Ec2Error}}
             \cup {<<Ec2Error, p>> : p \in ProductAnswers}

SpecsInit ==
    /\ impl \in Impls
    /\ days = 1
    /\ \/ /\ fn = "_convert_to_gb" /\ impl = "legacy"
          /\ arg \in {<<m>> : m \in MemoryStrings \cup {BadAttr}}
       \/ /\ fn = "specs"
          /\ arg \in LookupAnswers(impl)
    /\ ret = << >>
    /\ RunIdle /\ EnrichIdle

\* self._convert_to_gb(memory_str)
ConvertToGb ==
    /\ fn = "_convert_to_gb" /\ ret = << >>
    /\ ret' = <<_convert_to_gb(arg[1])>>
    /\ UNCHANGED <<impl, days, fn, arg, runVars, enrichVars>>

\* self.get_instance_specs(...) / self._get_instance_specs(...)
ResolveSpecs ==
    /\ fn = "specs" /\ ret = << >>
    /\ ret' = <<IF impl = "legacy" THEN get_instance_specs(arg[2])
                ELSE _get_instance_specs(arg[1], arg[2])>>
    /\ UNCHANGED <<impl, days, fn, arg, runVars, enrichVars>>

SpecsNext == ConvertToGb \/ ResolveSpecs

SpecSpecs == SpecsInit /\ [][SpecsNext]_vars

\* the catalog product the resolver reads its attributes from, if any
ProductRead == arg[1].k = "error" /\ arg[2].k = "ok" /\ arg[2].PriceList # << >>

\* number for GiB or no unit, number / 1024 for MiB, number * 1024 for TiB
GiBOf(m) ==
    IF m.unit = "mib" THEN m.n \div 1024
    ELSE IF m.unit = "tib" THEN m.n * 1024
    ELSE m.n

\* C16: _convert_to_gb gives number for GiB or a missing unit, number/1024
\* for MiB, number*1024 for TiB; a malformed string gives an explicit
\* unavailable result, distinguishable from 0, as the function's own value
\* and as the memory_gb field of the resolver.
C16_ConvertToGb ==
    /\ Evaluated("_convert_to_gb") =>
           IF arg[1].tok = "num" THEN ret[1] = PyFloat(GiBOf(arg[1]))
           ELSE ret[1] = NA
    /\ (Evaluated("specs") /\ ProductRead /\ arg[2].PriceList[1].memory.tok # "absent") =>
           LET m == arg[2].PriceList[1].memory
           IN  IF m.tok = "num"
                   THEN ret[1].memory_gb \in {NA, PyFloat(GiBOf(m))}
                   ELSE ret[1].memory_gb = NA

\* the catalog has no match, the lookup raises, or an attribute does not parse
SpecsUnresolved ==
    \/ arg[1] = Ec2(<< >>)
    \/ arg[1].k = "error" /\ (arg[2].k = "error" \/ arg[2].PriceList = << >>)
    \/ /\ ProductRead
       /\ LET p == arg[2].PriceList[1]
          IN  \/ p.memory.tok = "bad"
              \/ p.vcpu.tok = "bad"
              \/ p.vcpu.tok = "num" /\ p.vcpu.n % 100 # 0

\* C17: the spec resolver returns vcpus and memory_gb both Unavailable when
\* the catalog has no match, the lookup raises or an attribute does not
\* parse: no zero, no guessed value, and never one field Unavailable with a
\* number in the other.
C17_SpecsBothUnavailable ==
    Evaluated("specs") =>
        /\ SpecsUnresolved => (ret[1].vcpus = NA /\ ret[1].memory_gb = NA)
        /\ (ret[1].vcpus = NA) <=> (ret[1].memory_gb = NA)

----------------------------------------------------------------------------
(* SpecMetrics: utilization resolution as a pure function of the           *)
(* CloudWatch answers: _get_instance_metrics (layered, one query per       *)
(* metric) and get_rds_utilization (legacy, one batch query).              *)

\* the most samples one metric's answer holds
MaxSamples == 2

\* a non-zero sample of each metric: 40 %, 12 connections, 2 GiB, 50 GiB
SampleOf ==
    ("CPUUtilization" :> 4000) @@ ("DatabaseConnections" :> 1200)
        @@ ("FreeableMemory" :> 2048) @@ ("FreeStorageSpace" :> 51200)

\* the answers for a metric: the query raises / the result is missing, or
\* up to MaxSamples samples, each zero or the metric's non-zero sample
MetricAnswers(m) ==
    {MetricError}
        \cup {Samples(pts) : pts \in UNION {[1..n -> {0, SampleOf[m]}] : n \in 0..MaxSamples}}

CwResponses ==
    {("CPUUtilization" :> c) @@ ("DatabaseConnections" :> n)
        @@ ("FreeableMemory" :> m) @@ ("FreeStorageSpace" :> f) :
        <<c, n, m, f>> \in MetricAnswers("CPUUtilization") \X MetricAnswers("DatabaseConnections")
                            \X MetricAnswers("FreeableMemory") \X MetricAnswers("FreeStorageSpace")}

MetricsInit ==
    /\ impl \in Impls
    /\ days = 1
    /\ fn = "metrics"
    /\ \/ arg \in {<<cw, "ok">> : cw \in CwResponses}
       \/ impl = "legacy" /\ arg = <<GoodCw, "error">>
    /\ ret = << >>
    /\ RunIdle /\ EnrichIdle

\* the utilization resolver of an implementation
ResolvedMetrics(i, cw, batch) ==
    IF i = "layered" THEN _get_instance_metrics(cw) ELSE get_rds_utilization(cw, batch)

\* self._get_instance_metrics(...) / self.get_rds_utilization(...)
ResolveMetrics ==
    /\ fn = "metrics" /\ ret = << >>
    /\ ret' = <<ResolvedMetrics(impl, arg[1], arg[2])>>
    /\ UNCHANGED <<impl, days, fn, arg, runVars, enrichVars>>

MetricsNext == ResolveMetrics

SpecMetrics == MetricsInit /\ [][MetricsNext]_vars

\* the mean of all the samples, in the unit and rounding of the
\* implementation: the layered resolver keeps the mean as it is, the legacy
\* one converts bytes to GiB and rounds to two decimals
MeanOfAll(i, m, pts) ==
    IF i = "legacy" /\ m \in ByteMetrics
        THEN PyFloat(RoundHalfEven(Sum(pts) * 100, Len(pts) * 1024))
        ELSE PyFloat(RoundHalfEven(Sum(pts), Len(pts)))

\* every query was answered and every result is in the response
AllAnswered == arg[2] = "ok" /\ \A m \in DOMAIN arg[1] : arg[1][m].k = "ok"

\* C18: for each of the four metrics, in both implementations: without data
\* points the resolved value is Unavailable, otherwise it is the mean of all
\* the returned samples, zero-valued samples included.
C18_MeanOfAllSamples ==
    (Evaluated("metrics") /\ AllAnswered) =>
        \A m \in DOMAIN arg[1] :
            ret[1][m] = IF arg[1][m].pts = << >> THEN NA
                        ELSE MeanOfAll(impl, m, arg[1][m].pts)

\* the answers with every failed or missing metric answered without data
WithoutFailures(cw) ==
    [m \in DOMAIN cw |-> IF cw[m].k = "error" THEN Samples(<< >>) ELSE cw[m]]

\* C19: for any subset of the four metrics whose query fails or whose result
\* is missing from the response, each remaining metric is resolved to the
\* value it has when no metric fails.
C19_MetricFailureIsolated ==
    (Evaluated("metrics") /\ arg[2] = "ok") =>
        \A m \in DOMAIN arg[1] :
            arg[1][m].k = "ok" =>
                ret[1][m] = ResolvedMetrics(impl, WithoutFailures(arg[1]), "ok")[m]

----------------------------------------------------------------------------
(* SpecPrice: one price resolution, call by call.  hist is the sequence of *)
(* the get_products calls made (their filter fields and MaxResults), api   *)
(* holds the catalog's answers, rec the price returned; epc is the         *)
(* position: "price", "retry", "read", "priced".                           *)

\* the most products one get_products answer holds
MaxProducts == 2

StrictFilters == {"instanceType", "databaseEngine", "location", "deploymentOption"}

BroadFilters == {"instanceType", "databaseEngine", "location"}

\* the USD strings of a product's price dimensions: one or two of them
PriceStrings == {Usd(25000), Usd(30000), Usd(0), UsdComma(25000), BadPrice}

PricedProducts ==
    {Priced(<<p>>) : p \in PriceStrings}
        \cup {Priced(<<p, q>>) : p \in {Usd(0), BadPrice}, q \in {Usd(25000), BadPrice}}
        \cup {Priced(<< >>)}

\* answers of get_products: it raises, or up to MaxProducts products
CatalogAnswers ==
    {PricingError}
        \cup {Pricing(l) : l \in UNION {[1..n -> PricedProducts] : n \in 0..MaxProducts}}

\* the answers a resolution can meet: the broad query is only ever made by
\* the layered code, after an empty strict answer
PriceAnswers(i) ==
    {[GoodAnswers EXCEPT !.strict = s, !.broad = NoMatch] : s \in CatalogAnswers}
        \cup (IF i = "layered"
                  THEN {[GoodAnswers EXCEPT !.strict = NoMatch, !.broad = b] : b \in CatalogAnswers}
                  ELSE {})

PriceInit ==
    /\ impl \in Impls
    /\ days = 1
    /\ api \in PriceAnswers(impl)
    /\ epc = "price" /\ hist = << >> /\ rec = << >>
    /\ db = << >> /\ row = << >>
    /\ pc = "idle" /\ regions = << >> /\ ridx = 0 /\ dbs = << >> /\ dbidx = 0
    /\ instances = << >> /\ clients = {}
    /\ SizingIdle

\* what the resolver returns when it has no price: 'N/A' / Decimal('0')
NoPrice(i) == IF i = "legacy" THEN NA ELSE PyDecimal(0)

\* the first get_products call, with the Single-AZ filter
PriceQueryStrict ==
    /\ epc = "price"
    /\ hist' = <<[filters |-> StrictFilters, MaxResults |-> IF impl = "legacy" THEN 1 ELSE 0]>>
    /\ IF api.strict.k = "error" THEN epc' = "priced" /\ rec' = NoPrice(impl)
       ELSE IF api.strict.PriceList # << >> THEN epc' = "read" /\ rec' = rec
       ELSE IF impl = "layered" THEN epc' = "retry" /\ rec' = rec
       ELSE epc' = "priced" /\ rec' = NoPrice(impl)
    /\ UNCHANGED <<impl, days, api, db, row, pc, regions, ridx, dbs, dbidx, instances, clients, sizingVars>>

\* `if not response['PriceList']`: the layered code's second call, without
\* the deployment option
PriceQueryBroad ==
    /\ epc = "retry"
    /\ hist' = Append(hist, [filters |-> BroadFilters, MaxResults |-> 0])
    /\ IF api.broad.k = "ok" /\ api.broad.PriceList # << >>
           THEN epc' = "read" /\ rec' = rec
           ELSE epc' = "priced" /\ rec' = NoPrice(impl)
    /\ UNCHANGED <<impl, days, api, db, row, pc, regions, ridx, dbs, dbidx, instances, clients, sizingVars>>

\* the response the price is read from: that of the last call made
LastResponse == IF Len(hist) = 2 THEN api.broad ELSE api.strict

\* `if response['PriceList']`: the price of response['PriceList'][0]
PriceRead ==
    /\ epc = "read"
    /\ LET prices == LastResponse.PriceList[1].prices
       IN  rec' = IF impl = "legacy" THEN FirstPositivePrice(prices)
                  ELSE IF prices # << >> /\ Head(prices).fmt = "dot"
                      THEN PyDecimal(Head(prices).n)
                  ELSE NoPrice(impl)
    /\ epc' = "priced"
    /\ UNCHANGED <<impl, days, api, db, row, pc, regions, ridx, dbs, dbidx, instances, clients, hist, sizingVars>>

PriceNext == PriceQueryStrict \/ PriceQueryBroad \/ PriceRead

SpecPrice == PriceInit /\ [][PriceNext]_vars

\* the calls made one by one return what the resolver returns as a function
PriceStepsAgree ==
    epc = "priced" =>
        rec = IF impl = "legacy" THEN get_rds_price(api.strict)
              ELSE _get_instance_price(api.strict, api.broad)

\* the first entry of the first non-empty response, if any: << >> if none
FirstEntry ==
    IF api.strict.k = "ok" /\ api.strict.PriceList # << >> THEN <<api.strict.PriceList[1]>>
    ELSE IF api.strict.k = "ok" /\ api.broad.k = "ok" /\ api.broad.PriceList # << >>
        THEN <<api.broad.PriceList[1]>>
    ELSE << >>

\* C20: in both implementations the catalog is first queried with the
\* instance-type, engine, location and Single-AZ filters; exactly when that
\* query returns zero results one further query is made, without the
\* deployment option; at most two queries are made, and the price is taken
\* from the first entry of the first non-empty response.
C20_PriceQueryOrder ==
    /\ Len(hist) <= 2
    /\ Len(hist) >= 1 => hist[1].filters = StrictFilters
    /\ Len(hist) = 2 =>
           /\ hist[2].filters = BroadFilters
           /\ api.strict.k = "ok" /\ api.strict.PriceList = << >>
    /\ epc = "priced" =>
           /\ (api.strict.k = "ok" /\ api.strict.PriceList = << >>) => Len(hist) = 2
           /\ (rec # NoPrice(impl)) =>
                  /\ FirstEntry # << >>
                  /\ \E n \in DOMAIN FirstEntry[1].prices :
                         rec.v \in {FirstEntry[1].prices[n].n, RoundTo(FirstEntry[1].prices[n].n, 10)}

----------------------------------------------------------------------------
(* SpecClients: the client cache under any sequence of get calls.  Here    *)
(* clients is the dict _clients as a function from the key                 *)
(* <<service, region>> to the handle it holds (the other specifications    *)
(* keep only its keys); a handle is the number of the session.client call  *)
(* that built it.  hist is the log of the get calls.                       *)

\* the most get calls of a drawn sequence
MaxCalls == 3

Services == {"ec2", "rds", "pricing"}

\* region_name = None
NoRegionName == "None"

RegionArgs == {NoRegionName, "us-east-1", "eu-west-1"}

\* region_name or self._region
EffectiveRegion(region_name) ==
    IF region_name = NoRegionName THEN DefaultRegion ELSE region_name

\* CacheKey with the region argument taken as it is
CacheKey_raw(service, region_name) == <<service, region_name>>

\* key = f"{service}:{region_name or self._region}"
CacheKey(service, region_name) == <<service, EffectiveRegion(region_name)>>

\* the session.client calls that returned a handle so far
Constructed == {n \in DOMAIN hist : hist[n].constructed}

ClientsInit ==
    /\ impl \in Impls
    /\ days = 1
    /\ clients = << >>
    /\ hist = << >>
    /\ pc = "idle" /\ regions = << >> /\ ridx = 0 /\ dbs = << >> /\ dbidx = 0
    /\ instances = << >>
    /\ EnrichIdle /\ SizingIdle

\* get_client(service, region_name) / _get_client(service, region_name)
GetClient ==
    /\ Len(hist) < MaxCalls
    /\ \E service \in Services, region_name \in RegionArgs :
           LET key == CacheKey(service, region_name)
               call == [service |-> service, region_name |-> region_name]
           IN  IF key \in DOMAIN clients
                   THEN \* return self._clients[key]
                        /\ hist' = Append(hist, call @@ [raised |-> FALSE, constructed |-> FALSE,
                                                         handle |-> clients[key]])
                        /\ UNCHANGED clients
                   ELSE \/ \* session.client raises: nothing is stored
                           /\ hist' = Append(hist, call @@ [raised |-> TRUE, constructed |-> FALSE,
                                                            handle |-> 0])
                           /\ UNCHANGED clients
                        \/ \* session.client returns a new handle, which is stored
                           LET handle == Cardinality(Constructed) + 1
                           IN  /\ clients' = (key :> handle) @@ clients
                               /\ hist' = Append(hist, call @@ [raised |-> FALSE, constructed |-> TRUE,
                                                                handle |-> handle])
    /\ UNCHANGED <<impl, days, pc, regions, ridx, dbs, dbidx, instances, enrichVars, sizingVars>>

ClientsNext == GetClient

SpecClients == ClientsInit /\ [][ClientsNext]_vars

\* two calls ask for the same (service, effective region), a missing region
\* being "us-east-1"
SameKey(a, b) ==
    /\ a.service = b.service
    /\ (IF a.region_name = "None" THEN "us-east-1" ELSE a.region_name)
           = (IF b.region_name = "None" THEN "us-east-1" ELSE b.region_name)

\* C21: over any sequence of get calls, at most one handle is constructed
\* per (service, effective region), a missing region meaning "us-east-1";
\* every later call with the same key returns that handle without
\* constructing, and no cache entry is evicted or replaced.
C21_ClientCache ==
    \A j \in DOMAIN hist :
        hist[j].constructed =>
            /\ \A k \in DOMAIN hist :
                   (k > j /\ SameKey(hist[j], hist[k])) =>
                       /\ ~hist[k].constructed /\ ~hist[k].raised
                       /\ hist[k].handle = hist[j].handle
            /\ \E key \in DOMAIN clients : clients[key] = hist[j].handle
            /\ \A k \in DOMAIN hist :
                   (k # j /\ hist[k].constructed) => hist[k].handle # hist[j].handle

\* a handle built for ('pricing', None) was returned again for
\* ('pricing', 'us-east-1')
C21_Witness ==
    \E j, k \in DOMAIN hist :
        /\ j < k
        /\ hist[j].service = "pricing" /\ hist[j].region_name = "None" /\ hist[j].constructed
        /\ hist[k].service = "pricing" /\ hist[k].region_name = "us-east-1"
        /\ hist[k].handle = hist[j].handle

----------------------------------------------------------------------------
(* SpecCosts: CostAnalyzer.analyze_costs over drawn billing line items.    *)
(* Amounts, totals and daily averages are in hundredths of a dollar, the   *)
(* step of round(x, 2).  arg holds the line items and the allow-list, ret  *)
(* the returned rows.                                                      *)

\* the most line items the billing feed returns
MaxItems == 3

ServiceNames == {"S3", "EC2"}

\* cost_amount of a line item; a credit is negative
Amounts == {-500, 500, 1000, 2000}

\* ServiceCost(service_name, cost_amount, date)
LineItems == [service_name : ServiceNames, cost_amount : Amounts]

\* service_filter: None or [] (no filter), or a list of service names
ServiceFilters == {<< >>, <<"S3">>, <<"S3", "EC2">>, <<"Lambda">>}

CostWindows == Windows \cup {3}

\* not service_filter or cost.service_name in service_filter
Included(cost, service_filter) ==
    \/ service_filter = << >>
    \/ \E n \in DOMAIN service_filter : service_filter[n] = cost.service_name

\* service_costs[service_name] += cost_amount on a defaultdict(Decimal),
\* which keeps its keys in the order of their first use
AddTo(service_costs, service_name, cost_amount) ==
    IF \E n \in DOMAIN service_costs : service_costs[n].service_name = service_name
        THEN [n \in DOMAIN service_costs |->
                 IF service_costs[n].service_name = service_name
                     THEN [service_costs[n] EXCEPT !.total = @ + cost_amount]
                     ELSE service_costs[n]]
        ELSE Append(service_costs, [service_name |-> service_name, total |-> 0 + cost_amount])

\* AddCost with total_cost accumulated outside the filter test
AddCost_unfiltered(acc, cost, service_filter) ==
    [service_costs |-> IF Included(cost, service_filter)
                           THEN AddTo(acc.service_costs, cost.service_name, cost.cost_amount)
                           ELSE acc.service_costs,
     total_cost |-> acc.total_cost + cost.cost_amount]

\* the body of the loop over costs
AddCost(acc, cost, service_filter) ==
    IF Included(cost, service_filter)
        THEN [service_costs |-> AddTo(acc.service_costs, cost.service_name, cost.cost_amount),
              total_cost |-> acc.total_cost + cost.cost_amount]
        ELSE acc

RECURSIVE GroupCosts(_, _, _)
\* for cost in costs: ...
GroupCosts(costs, service_filter, acc) ==
    IF costs = << >> THEN acc
    ELSE GroupCosts(Tail(costs), service_filter, AddCost(acc, Head(costs), service_filter))

\* one row of the result: float(total_cost) and round(float(total_cost) / days, 2)
CostRow(service_name, total_cost, d) ==
    ("Service" :> PyStr(service_name))
        @@ ("Total Cost (USD)" :> PyFloat(total_cost))
        @@ ("Daily Average (d)" :> PyFloat(RoundHalfEven(total_cost, d)))

\* CostAnalyzer.analyze_costs, after the billing feed answered with costs
analyze_costs(d, costs, service_filter) ==
    LET grouped == GroupCosts(costs, service_filter, [service_costs |-> << >>, total_cost |-> 0])
        service_costs == grouped.service_costs
        result == [n \in DOMAIN service_costs |->
                      CostRow(service_costs[n].service_name, service_costs[n].total, d)]
    IN  IF result # << >>
            THEN Append(result, CostRow("TOTAL", grouped.total_cost, d))
            ELSE result

RECURSIVE SeqsUpTo(_, _)
\* the sequences over S of length at most n
SeqsUpTo(S, n) ==
    IF n = 0 THEN {<< >>}
    ELSE LET shorter == SeqsUpTo(S, n - 1)
         IN  shorter \cup {Append(s, x) : s \in {t \in shorter : Len(t) = n - 1}, x \in S}

CostsInit ==
    /\ impl = "layered"
    /\ days \in CostWindows
    /\ fn = "analyze_costs"
    /\ \E costs \in SeqsUpTo(LineItems, MaxItems), service_filter \in ServiceFilters :
           arg = [costs |-> costs, service_filter |-> service_filter]
    /\ ret = << >>
    /\ pc = "idle" /\ regions = << >> /\ ridx = 0 /\ dbs = << >> /\ dbidx = 0
    /\ instances = << >> /\ clients = {} /\ hist = << >>
    /\ EnrichIdle

AnalyzeCosts ==
    /\ fn = "analyze_costs"
    /\ ret' = analyze_costs(days, arg.costs, arg.service_filter)
    /\ fn' = "analyzed_costs"
    /\ UNCHANGED <<impl, days, arg, runVars, enrichVars>>

CostsNext == AnalyzeCosts

SpecCosts == CostsInit /\ [][CostsNext]_vars

\* the rows of the result other than the TOTAL row
ServiceRows == {n \in DOMAIN ret : ret[n]["Service"].v # "TOTAL"}

\* the sum of the amounts of the line items of one service
RECURSIVE AmountOf(_, _)
AmountOf(service_name, costs) ==
    IF costs = << >> THEN 0
    ELSE (IF Head(costs).service_name = service_name THEN Head(costs).cost_amount ELSE 0)
             + AmountOf(service_name, Tail(costs))

\* the sum of the totals of the rows numbered in rows
RECURSIVE TotalOfRows(_)
TotalOfRows(rows) ==
    IF rows = {} THEN 0
    ELSE LET n == CHOOSE m \in rows : TRUE
         IN  ret[n]["Total Cost (USD)"].v + TotalOfRows(rows \ {n})

\* C22: each service row's total is the sum of the amounts of that
\* service's line items, and the TOTAL row's value is the sum of the totals
\* of the service rows of the output.
C22_TotalsAddUp ==
    fn = "analyzed_costs" =>
        \A n \in DOMAIN ret :
            IF n \in ServiceRows
                THEN ret[n]["Total Cost (USD)"].v = AmountOf(ret[n]["Service"].v, arg.costs)
                ELSE ret[n]["Total Cost (USD)"].v = TotalOfRows(ServiceRows)

\* the feed {S3: 10, S3: 5, EC2: 20} gave S3 15, EC2 20, TOTAL 35
C22_Witness ==
    /\ fn = "analyzed_costs"
    /\ arg.costs = <<[service_name |-> "S3", cost_amount |-> 1000],
                     [service_name |-> "S3", cost_amount |-> 500],
                     [service_name |-> "EC2", cost_amount |-> 2000]>>
    /\ Len(ret) = 3
    /\ ret[1]["Service"].v = "S3" /\ ret[1]["Total Cost (USD)"].v = 1500
    /\ ret[2]["Service"].v = "EC2" /\ ret[2]["Total Cost (USD)"].v = 2000
    /\ ret[3]["Service"].v = "TOTAL" /\ ret[3]["Total Cost (USD)"].v = 3500

\* C23: for every output row, the TOTAL row included, the daily average
\* times window_days is the row's total: the division loses nothing.
C23_DailyAverageExact ==
    fn = "analyzed_costs" =>
        \A n \in DOMAIN ret :
            ret[n]["Daily Average (d)"].v * days = ret[n]["Total Cost (USD)"].v

----------------------------------------------------------------------------
(* SpecAnalyze: CostAnalyzer.analyze_databases over the list the repository *)
(* returned.  instances is that list (layered records), ret the rows.       *)

\* the most instances the repository returns
MaxRows == 3

\* the CPU samples of an instance: none, 25 %, 85 %, and 90 % and 95 %
CpuSamples == {<< >>, <<2500>>, <<8500>>, <<9000, 9500>>}

\* the record the layered repository builds for entry id when CloudWatch
\* answers the CPU query with pts
InstanceOf(id, pts, window) ==
    LayeredBody(TheRegion, DbEntry(id, AllKeys, 50000),
                [GoodAnswers EXCEPT !.cw = [GoodCw EXCEPT !["CPUUtilization"] = Samples(pts)]],
                window).rec

\* InsertByCpu for a sort without reverse=True
InsertByCpu_ascending(out, r) ==
    LET k == Cardinality({n \in DOMAIN out : out[n].CpuAvg.v <= r.CpuAvg.v})
    IN  SubSeq(out, 1, k) \o <<r>> \o SubSeq(out, k + 1, Len(out))

\* the place sorted(key=CPU Avg, reverse=True) gives a row among the rows
\* before it: after every row whose key is not smaller (the sort is stable)
InsertByCpu(out, r) ==
    LET k == Cardinality({n \in DOMAIN out : out[n].CpuAvg.v >= r.CpuAvg.v})
    IN  SubSeq(out, 1, k) \o <<r>> \o SubSeq(out, k + 1, Len(out))

RECURSIVE SortedByCpu(_, _)
\* sorted(analyzed_instances, key=lambda x: x['CPU Avg (%)'], reverse=True)
SortedByCpu(rows, out) ==
    IF rows = << >> THEN out
    ELSE SortedByCpu(Tail(rows), InsertByCpu(out, Head(rows)))

\* CostAnalyzer.analyze_databases, after the repository returned list
analyze_databases(list, window) ==
    LET analyzed_instances == [n \in DOMAIN list |-> AnalyzedRow(list[n], window)]
    IN  SortedByCpu(analyzed_instances, << >>)

AnalyzeInit ==
    /\ impl = "layered"
    /\ days \in Windows
    /\ fn = "analyze_databases"
    /\ \E n \in 0..MaxRows :
           \E cpu \in [1..n -> CpuSamples] :
               instances = [k \in 1..n |-> InstanceOf(DbIds[k], cpu[k], days)]
    /\ arg = << >> /\ ret = << >>
    /\ pc = "idle" /\ regions = << >> /\ ridx = 0 /\ dbs = << >> /\ dbidx = 0
    /\ clients = {} /\ hist = << >>
    /\ EnrichIdle

AnalyzeDatabases ==
    /\ fn = "analyze_databases"
    /\ ret' = analyze_databases(instances, days)
    /\ fn' = "analyzed_databases"
    /\ UNCHANGED <<impl, days, arg, runVars, enrichVars>>

AnalyzeNext == AnalyzeDatabases

SpecAnalyze == AnalyzeInit /\ [][AnalyzeNext]_vars

\* C26: analyze_databases returns exactly one row per instance the
\* repository returned, none dropped and none duplicated, and the rows are
\* in non-increasing order of CPU average, whatever the order of the input.
C26_OneRowEachSortedByCpu ==
    fn = "analyzed_databases" =>
        /\ Len(ret) = Len(instances)
        /\ \A k \in DOMAIN instances :
               Cardinality({n \in DOMAIN ret :
                                ret[n].DBIdentifier = instances[k].identifier}) = 1
        /\ \A n, m \in DOMAIN ret : n < m => ret[n].CpuAvg.v >= ret[m].CpuAvg.v

\* three instances returned in increasing order of CPU came out reversed
C26_Witness ==
    /\ fn = "analyzed_databases"
    /\ Len(instances) = 3
    /\ instances[1].metrics.cpu_utilization.v < instances[2].metrics.cpu_utilization.v
    /\ instances[2].metrics.cpu_utilization.v < instances[3].metrics.cpu_utilization.v
    /\ ret[1].DBIdentifier = "db-3" /\ ret[2].DBIdentifier = "db-2"
    /\ ret[3].DBIdentifier = "db-1"

====
